---- MODULE Spec2Model ----
(***************************************************************************)
(* luci-app-rtorrent: the SCGI relay (root/usr/libexec/rpcd/luci.rtorrent) *)
(* and the XML-RPC codec with its call facade                              *)
(* (htdocs/luci-static/resources/tools/rtorrent.js).                       *)
(*                                                                         *)
(* Strings (Lua byte strings, JavaScript strings, the bytes on the socket) *)
(* are sequences of characters.  A character is a one-character TLA+       *)
(* string; the NUL byte is written "NUL".  A literal prefix of an error    *)
(* message is kept as one element.  Values of both languages are tagged    *)
(* records [t |-> <type>, <payload field> |-> <payload>].                  *)
(***************************************************************************)
EXTENDS Integers, Sequences, FiniteSets, TLC

VARIABLES
    \* ---- relay: locals of methods.rtorrent_rpc.call and its socket ----
    pc,        \* position of the relay call
    xml,       \* args.xml, the request body
    address,   \* captured host of the scgi_port line
    port,      \* captured port of the scgi_port line
    sock,      \* "none" | "open"
    wire,      \* every byte the daemon sends before it closes the connection
    rpos,      \* number of bytes of wire already consumed by sock:receive
    sent,      \* the bytes handed to sock:send
    headers,   \* the headers table: lower-cased name -> value
    line,      \* the header line read last
    body,      \* the value of local body
    result,    \* the table the call returned
    outcome,   \* "none" | "returned" | "raised"
    stages,    \* history: the stages the call has performed, in order
    \* ---- codec: one application of a pure function of rtorrent.js ----
    cpc,       \* "idle" | "encoded" | "received" | "roundtrip" | "decoded" | "camel"
    cin,       \* the input of the function
    cxml,      \* the XML text between encoding and parsing
    cdom,      \* the documentElement handed to decodeXmlRpc
    cout,      \* the output
    \* ---- facade: one rtorrentCall / rtorrentMulticall / rtorrentBatchcall ----
    fpc,       \* "idle" | "await" | "done"
    fop,       \* "call" | "multicall" | "batchcall"
    fargs,     \* the arguments of the operation
    fmethod,   \* method passed to rtorrentCall
    fparams,   \* params passed to rtorrentCall
    frequest,  \* the document handed to the transport
    fcalls,    \* number of transport invocations
    fresponse, \* what the transport resolved to
    fresults,  \* what rtorrentCall returned
    fout       \* what the operation returned

relayVars == <<pc, xml, address, port, sock, wire, rpos, sent, headers, line, body,
               result, outcome, stages>>
codecVars == <<cpc, cin, cxml, cdom, cout>>
facadeVars == <<fpc, fop, fargs, fmethod, fparams, frequest, fcalls, fresponse,
                fresults, fout>>
vars == <<relayVars, codecVars, facadeVars>>

(***************************************************************************)
(* Bounds of the model.                                                    *)
(***************************************************************************)
MaxBody == 11
MaxDepth == 2
MaxCommands == 2

(***************************************************************************)
(* Characters and values.                                                  *)
(***************************************************************************)
NUL == "NUL"
LF == "\n"
CR == "\r"
CRLF == <<CR, LF>>

Digits == <<"0", "1", "2", "3", "4", "5", "6", "7", "8", "9">>
LowerLetters == <<"a", "b", "c", "d", "e", "f", "g", "h", "i", "j", "k", "l", "m", "n", "o", "p", "q", "r", "s", "t", "u", "v", "w", "x", "y", "z">>
UpperLetters == <<"A", "B", "C", "D", "E", "F", "G", "H", "I", "J", "K", "L", "M", "N", "O", "P", "Q", "R", "S", "T", "U", "V", "W", "X", "Y", "Z">>

Range(s) == {s[i] : i \in 1..Len(s)}
IndexOf(s, c) == CHOOSE i \in 1..Len(s) : s[i] = c

IsDigit(c) == c \in Range(Digits)
DigitVal(c) == IndexOf(Digits, c) - 1

Nil == [t |-> "nil"]
Undefined == [t |-> "undefined"]
Null == [t |-> "null"]
NaN == [t |-> "NaN"]
TypeErr == [t |-> "TypeError"]
Str(s) == [t |-> "string", s |-> s]
Num(n) == [t |-> "number", n |-> n]
Bool(b) == [t |-> "boolean", b |-> b]
DateV(ms) == [t |-> "date", ms |-> ms]
Arr(a) == [t |-> "array", a |-> a]
\* an object is the sequence of its own properties in insertion order, keys unique
Obj(props) == [t |-> "object", o |-> props]
Prop(k, v) == [k |-> k, v |-> v]

RECURSIVE ToDecimal(_)
\* an integer as decimal text: Lua's number-to-string coercion and JavaScript's
\* Number-to-String agree on it for the integers of the model
ToDecimal(n) ==
    IF n < 0 THEN <<"-">> \o ToDecimal(-n)
    ELSE IF n < 10 THEN <<Digits[n + 1]>>
    ELSE ToDecimal(n \div 10) \o <<Digits[(n % 10) + 1]>>

RECURSIVE DigitsValue(_)
\* the number a non-empty run of decimal digits denotes
DigitsValue(s) ==
    IF Len(s) = 1 THEN DigitVal(s[1])
    ELSE 10 * DigitsValue(SubSeq(s, 1, Len(s) - 1)) + DigitVal(s[Len(s)])

IsDigitRun(s) == Len(s) > 0 /\ \A i \in 1..Len(s) : IsDigit(s[i])

HasPrefixAt(s, i, lit) ==
    /\ i >= 1
    /\ i + Len(lit) - 1 <= Len(s)
    /\ SubSeq(s, i, i + Len(lit) - 1) = lit

Least(S) == CHOOSE j \in S : \A k \in S : j <= k
\* the first index >= i of s that holds a character of C, or Len(s)+1
FirstIn(s, i, C) ==
    LET hits == {j \in i..Len(s) : s[j] \in C}
    IN IF hits = {} THEN Len(s) + 1 ELSE Least(hits)
\* the first index >= i of s that holds a character outside C, or Len(s)+1
FirstNotIn(s, i, C) ==
    LET hits == {j \in i..Len(s) : s[j] \notin C}
    IN IF hits = {} THEN Len(s) + 1 ELSE Least(hits)

\* Lua %s and the JavaScript regex class \s, on the characters of the model
SpaceChars == {" ", "\t", LF, CR, "\f"}
SkipSpaces(s, i) == FirstNotIn(s, i, SpaceChars)

RECURSIVE Repeat(_, _)
Repeat(c, n) == IF n = 0 THEN <<>> ELSE Append(Repeat(c, n - 1), c)

ToLowerChar(c) ==
    IF c \in Range(UpperLetters) THEN LowerLetters[IndexOf(UpperLetters, c)] ELSE c
ToUpperChar(c) ==
    IF c \in Range(LowerLetters) THEN UpperLetters[IndexOf(LowerLetters, c)] ELSE c
\* string.lower / String.prototype.toLowerCase
ToLowerCase(s) == [i \in 1..Len(s) |-> ToLowerChar(s[i])]

(***************************************************************************)
(* The relay: methods.rtorrent_rpc.call of luci.rtorrent.                  *)
(***************************************************************************)

\* what fs.readfile(rtorrent_config_file) may hold; Nil is the missing file
ConfigFiles ==
    { Nil,
      Str(<<"s", "c", "g", "i", "_", "p", "o", "r", "t", " ", "=", " ", "1", "2", "7", ".", "0", ".", "0", ".", "1", ":", "5", "0", "0", "0", "\n">>),
      Str(<<"d", "i", "r", "e", "c", "t", "o", "r", "y", " ", "=", " ", "/", "t", "m", "p", "\n", " ", " ", "s", "c", "g", "i", "_", "p", "o", "r", "t", "=", "l", "o", "c", "a", "l", "h", "o", "s", "t", ":", "5", "0", "0", "0">>),
      Str(<<"#", " ", "s", "c", "g", "i", "_", "p", "o", "r", "t", " ", "=", " ", "1", "2", "7", ".", "0", ".", "0", ".", "1", ":", "5", "0", "0", "0", "\n">>),
      Str(<<"s", "c", "g", "i", "_", "p", "o", "r", "t", " ", "=", " ", "/", "v", "a", "r", "/", "r", "u", "n", "/", "r", "p", "c", ".", "s", "o", "c", "k", "\n">>),
      Str(<<"s", "c", "g", "i", "_", "p", "o", "r", "t", " ", "=", " ", ":", "5", "0", "0", "0", "\n">>),
      Str(<<"s", "e", "s", "s", "i", "o", "n", " ", "=", " ", "/", "s", "\n">>) }

\* tostring(v) for nil and for strings
LuaToString(v) == IF v = Nil THEN <<"n", "i", "l">> ELSE v.s

NoMatch == [ok |-> FALSE]

\* the pattern %s*scgi_port%s*=%s*([^:]+):(%d+) anchored after a "\n" at p
MatchScgiPortAt(s, p) ==
    IF ~(p <= Len(s) /\ s[p] = LF) THEN NoMatch
    ELSE
    LET a == SkipSpaces(s, p + 1)
        b == SkipSpaces(s, a + Len(<<"s", "c", "g", "i", "_", "p", "o", "r", "t">>))
        c == SkipSpaces(s, b + 1)
        e == FirstIn(s, c, {":"})
        \* [^:]+ needs one character: when the colon follows the spaces at
        \* once, %s* gives its last space back to the capture
        from == IF e = c /\ c > b + 1 THEN c - 1 ELSE c
        d == FirstNotIn(s, e + 1, Range(Digits))
    IN  IF /\ HasPrefixAt(s, a, <<"s", "c", "g", "i", "_", "p", "o", "r", "t">>)
           /\ b <= Len(s) /\ s[b] = "="
           /\ e <= Len(s)
           /\ from < e
           /\ d > e + 1
        THEN [ok |-> TRUE, address |-> SubSeq(s, from, e - 1), port |-> SubSeq(s, e + 1, d - 1)]
        ELSE NoMatch

\* string.match tries every start position from the left and keeps the first match
MatchScgiPort(s) ==
    LET hits == {p \in 1..Len(s) : MatchScgiPortAt(s, p).ok}
    IN IF hits = {} THEN NoMatch ELSE MatchScgiPortAt(s, Least(hits))

\* the request bodies a call may carry
RequestBodies ==
    {Repeat("x", n) : n \in 0..MaxBody} \cup {<<"<", "a", "/", ">">>, <<"a", ",", "b">>, <<"1", ":", "x", ",">>, <<"<", "m", ">", ",", "NUL", "<", "/", "m", ">">>}

\* a header block whose last field has no terminating NUL
ScgiHeaderDropNul(x) ==
    <<"C", "O", "N", "T", "E", "N", "T", "_", "L", "E", "N", "G", "T", "H">> \o <<NUL>> \o ToDecimal(Len(x)) \o <<NUL>>
        \o <<"S", "C", "G", "I">> \o <<NUL>> \o <<"1">> \o <<NUL>>
        \o <<"R", "E", "Q", "U", "E", "S", "T", "_", "M", "E", "T", "H", "O", "D">> \o <<NUL>> \o <<"P", "O", "S", "T">> \o <<NUL>>
        \o <<"S", "E", "R", "V", "E", "R", "_", "P", "R", "O", "T", "O", "C", "O", "L">> \o <<NUL>> \o <<"H", "T", "T", "P", "/", "1", ".", "1">>
\* lines 22-27: the SCGI header block
ScgiHeader(x) ==
    LET content_length == <<"C", "O", "N", "T", "E", "N", "T", "_", "L", "E", "N", "G", "T", "H">> \o <<NUL>> \o ToDecimal(Len(x)) \o <<NUL>>
        scgi_enable == <<"S", "C", "G", "I">> \o <<NUL>> \o <<"1">> \o <<NUL>>
        request_method == <<"R", "E", "Q", "U", "E", "S", "T", "_", "M", "E", "T", "H", "O", "D">> \o <<NUL>> \o <<"P", "O", "S", "T">> \o <<NUL>>
        server_protocol == <<"S", "E", "R", "V", "E", "R", "_", "P", "R", "O", "T", "O", "C", "O", "L">> \o <<NUL>> \o <<"H", "T", "T", "P", "/", "1", ".", "1">> \o <<NUL>>
    IN content_length \o scgi_enable \o request_method \o server_protocol

\* line 28: the argument of sock:send
ScgiRequest(x) ==
    LET header == ScgiHeader(x)
    IN ToDecimal(Len(header)) \o <<":">> \o header \o <<",">> \o x

\* ---- the daemon's side of the socket ----
WireLine(l) == IF l = <<>> THEN <<>> ELSE l \o CRLF
StatusLines ==
    { <<"S", "t", "a", "t", "u", "s", ":", " ", "2", "0", "0", " ", "O", "K">>, <<"S", "t", "a", "t", "u", "s", ":", " ", "4", "0", "4", " ", "N", "o", "t", " ", "F", "o", "u", "n", "d">>, <<"s", "t", "a", "t", "u", "s", ":", "2", "0", "0">>, <<"S", "t", "a", "t", "u", "s", ":", " ", "O", "K">>, <<>> }
LengthLines(b) ==
    { <<"C", "o", "n", "t", "e", "n", "t", "-", "L", "e", "n", "g", "t", "h", ":", " ">> \o ToDecimal(Len(b)),
      <<"C", "o", "n", "t", "e", "n", "t", "-", "L", "e", "n", "g", "t", "h", ":", " ">> \o ToDecimal(Len(b) + 1),
      <<"C", "o", "n", "t", "e", "n", "t", "-", "L", "e", "n", "g", "t", "h", ":", " ", "a", "b", "c">>,
      <<>> }
ReplyBodies == { <<"<", "r", "/", ">">>, <<"<", "a", ">", "\n", "<", "/", "a", ">", "\n">> }
\* every byte stream the daemon may send before closing
Wires ==
    { WireLine(st) \o WireLine(cl) \o CRLF \o b :
         st \in StatusLines, cl \in UNION {LengthLines(bb) : bb \in ReplyBodies},
         b \in ReplyBodies }
    \cup { <<>>, <<"S", "t", "a", "t", "u", "s", ":", " ", "2", "0", "0", " ", "O", "K", "\r", "\n">>, <<"S", "t", "a", "t", "u", "s", ":", " ", "2", "0", "0", " ", "O", "K">>, <<"g", "a", "r", "b", "a", "g", "e", "\r", "\n", "\r", "\n">>,
           <<"S", "t", "a", "t", "u", "s", ":", " ", "2", "0", "0", " ", "O", "K", "\r", "\n", "C", "o", "n", "t", "e", "n", "t", "-", "L", "e", "n", "g", "t", "h", ":", " ", "0", "\r", "\n", "\r", "\n">> }

RECURSIVE Strip(_, _)
Strip(s, c) ==
    IF s = <<>> THEN <<>>
    ELSE IF s[1] = c THEN Strip(Tail(s), c) ELSE <<s[1]>> \o Strip(Tail(s), c)

\* sock:receive() / sock:receive("*l"): the bytes up to the next LF, CR dropped;
\* nil, "closed" when the stream ends first
ReceiveLine(w, pos) ==
    LET nl == FirstIn(w, pos + 1, {LF})
    IN IF nl > Len(w)
       THEN [val |-> Nil, err |-> Str(<<"c", "l", "o", "s", "e", "d">>), pos |-> Len(w)]
       ELSE [val |-> Str(Strip(SubSeq(w, pos + 1, nl - 1), CR)), err |-> Nil, pos |-> nl]

\* sock:receive(n): exactly n bytes; nil, "closed" when the stream ends first
ReceiveBytes(w, pos, n) ==
    IF pos + n <= Len(w) /\ (n > 0 \/ pos < Len(w))
    THEN [val |-> Str(SubSeq(w, pos + 1, pos + n)), err |-> Nil, pos |-> pos + n]
    ELSE [val |-> Nil, err |-> Str(<<"c", "l", "o", "s", "e", "d">>), pos |-> Len(w)]

\* sock:receive("*a"): everything up to the close
ReceiveAll(w, pos) ==
    IF pos < Len(w)
    THEN [val |-> Str(SubSeq(w, pos + 1, Len(w))), err |-> Nil, pos |-> Len(w)]
    ELSE [val |-> Nil, err |-> Str(<<"c", "l", "o", "s", "e", "d">>), pos |-> Len(w)]

Raised == [raised |-> TRUE]

\* sock:receive(pattern) as line 43 calls it: nil selects the default "*l", a
\* string of digits is a byte count, "*l" and "*a" are patterns, anything else
\* raises "invalid receive pattern"
Receive(w, pos, pattern) ==
    IF pattern = Nil THEN ReceiveLine(w, pos)
    ELSE IF IsDigitRun(pattern.s) THEN ReceiveBytes(w, pos, DigitsValue(pattern.s))
    ELSE IF HasPrefixAt(pattern.s, 1, <<"*", "l">>) THEN ReceiveLine(w, pos)
    ELSE IF HasPrefixAt(pattern.s, 1, <<"*", "a">>) THEN ReceiveAll(w, pos)
    ELSE Raised

\* line 35: socket.skip(2, line:find("^(.-):%s*(.*)"))
ParseHeaderLine(l) ==
    LET colon == FirstIn(l, 1, {":"})
    IN IF colon > Len(l) THEN NoMatch
       ELSE [ok |-> TRUE, name |-> SubSeq(l, 1, colon - 1),
             value |-> SubSeq(l, SkipSpaces(l, colon + 1), Len(l))]

\* headers[key], nil when absent
Header(h, key) == IF key \in DOMAIN h THEN Str(h[key]) ELSE Nil

\* line 44: socket.skip(2, headers.status:find("^(%d%d%d)"))
StatusCode(status) ==
    IF Len(status) >= 3 /\ \A i \in 1..3 : IsDigit(status[i])
    THEN Str(SubSeq(status, 1, 3)) ELSE Nil

NoHeaders == [k \in {} |-> <<>>]
Returned(x, e) == [xml |-> x, error |-> e]
NoResult == Returned(Nil, Nil)

\* the call leaves with `return t, 1` or `return t`
Return(t) ==
    /\ result' = t
    /\ outcome' = "returned"
    /\ pc' = "done"

\* an uncaught Lua error leaves method.call; nothing is returned
Raise ==
    /\ result' = NoResult
    /\ outcome' = "raised"
    /\ pc' = "done"

\* line 104-106: the dispatcher calls method.call(args)
RpcCall(x) ==
    /\ pc = "idle" /\ cpc = "idle" /\ fpc = "idle"
    /\ xml' = x
    /\ pc' = "resolve"
    /\ UNCHANGED <<address, port, sock, wire, rpos, sent, headers, line, body, result,
                   outcome, stages>>
    /\ UNCHANGED <<codecVars, facadeVars>>

\* lines 15-17
Resolve(cfg) ==
    /\ pc = "resolve"
    /\ stages' = Append(stages, "resolve")
    /\ LET m == MatchScgiPort(<<LF>> \o LuaToString(cfg))
       IN IF ~m.ok
          THEN /\ Return(Returned(Nil, Str(<<"No scgi port">>)))
               /\ UNCHANGED <<address, port>>
          ELSE /\ address' = m.address
               /\ port' = m.port
               /\ pc' = "connect"
               /\ UNCHANGED <<result, outcome>>
    /\ UNCHANGED <<xml, sock, wire, rpos, sent, headers, line, body>>
    /\ UNCHANGED <<codecVars, facadeVars>>

\* lines 20-21
Connect(ok, w) ==
    /\ pc = "connect"
    /\ stages' = Append(stages, "connect")
    /\ IF ~ok
       THEN /\ Return(Returned(Nil, Str(<<"Socket connect failed">>)))
            /\ UNCHANGED <<sock, wire>>
       ELSE /\ sock' = "open"
            /\ wire' = w
            /\ pc' = "send"
            /\ UNCHANGED <<result, outcome>>
    /\ UNCHANGED <<xml, address, port, rpos, sent, headers, line, body>>
    /\ UNCHANGED <<codecVars, facadeVars>>

\* lines 22-28
Send ==
    /\ pc = "send"
    /\ stages' = Append(stages, "send")
    /\ sent' = ScgiRequest(xml)
    /\ pc' = "receive"
    /\ UNCHANGED <<xml, address, port, sock, wire, rpos, headers, line, body, result, outcome>>
    /\ UNCHANGED <<codecVars, facadeVars>>

\* lines 31-33
ReceiveFirst ==
    /\ pc = "receive"
    /\ stages' = Append(stages, "headers")
    /\ LET r == ReceiveLine(wire, rpos)
       IN /\ rpos' = r.pos
          /\ line' = r.val
          /\ headers' = NoHeaders
          /\ IF r.err # Nil
             THEN Return(Returned(Nil, r.err))
             ELSE pc' = "loop" /\ UNCHANGED <<result, outcome>>
    /\ UNCHANGED <<xml, address, port, sock, wire, sent, body>>
    /\ UNCHANGED <<codecVars, facadeVars>>

\* lines 34-42: one turn of the while loop
HeaderLine ==
    /\ pc = "loop"
    /\ line.s # <<>>
    /\ LET h == ParseHeaderLine(line.s)
           r == ReceiveLine(wire, rpos)
       IN IF ~h.ok
          THEN /\ Return(Returned(Nil, Str(<<"Malformed reponse header: ">> \o line.s)))
               /\ UNCHANGED <<headers, line, rpos>>
          ELSE /\ headers' = (ToLowerCase(h.name) :> h.value) @@ headers
               /\ line' = r.val
               /\ rpos' = r.pos
               /\ IF r.err # Nil
                  THEN Return(Returned(Nil, r.err))
                  ELSE UNCHANGED <<pc, result, outcome>>
    /\ UNCHANGED <<xml, address, port, sock, wire, sent, body, stages>>
    /\ UNCHANGED <<codecVars, facadeVars>>

\* line 34 with line == "", then line 43
ReceiveBody ==
    /\ pc = "loop"
    /\ line.s = <<>>
    /\ stages' = Append(stages, "body")
    /\ LET r == Receive(wire, rpos, Header(headers, <<"c", "o", "n", "t", "e", "n", "t", "-", "l", "e", "n", "g", "t", "h">>))
       IN IF r = Raised
          THEN Raise /\ UNCHANGED <<body, rpos>>
          ELSE /\ body' = r.val
               /\ rpos' = r.pos
               /\ pc' = "status"
               /\ UNCHANGED <<result, outcome>>
    /\ UNCHANGED <<xml, address, port, sock, wire, sent, headers, line>>
    /\ UNCHANGED <<codecVars, facadeVars>>

\* lines 44-46
ValidateStatus ==
    /\ pc = "status"
    /\ stages' = Append(stages, "status")
    /\ LET status == Header(headers, <<"s", "t", "a", "t", "u", "s">>)
       IN IF status = Nil
          THEN Raise                    \* headers.status:find indexes nil
          ELSE LET code == StatusCode(status.s)
               IN IF code = Nil
                  THEN Raise            \* tonumber(nil) ~= 200, then ".." on nil
                  ELSE IF DigitsValue(code.s) # 200
                       THEN Return(Returned(Nil, Str(<<"Wrong response code: ">> \o code.s)))
                       ELSE Return(Returned(body, Nil))
    /\ UNCHANGED <<xml, address, port, sock, wire, rpos, sent, headers, line, body>>
    /\ UNCHANGED <<codecVars, facadeVars>>

NextRelay ==
    \/ \E x \in RequestBodies : RpcCall(x)
    \/ \E cfg \in ConfigFiles : Resolve(cfg)
    \/ \E ok \in BOOLEAN, w \in Wires : Connect(ok, w)
    \/ Send
    \/ ReceiveFirst
    \/ HeaderLine
    \/ ReceiveBody
    \/ ValidateStatus

(***************************************************************************)
(* The codec: escapeXml, encodeXmlRpcParam, encodeXmlRpc, decodeXmlRpc and *)
(* toCamelCase of rtorrent.js, and the DOMParser they are used with.       *)
(***************************************************************************)

\* lines 15-25
EscapeChar(chr) ==
    CASE chr = "<" -> <<"&", "l", "t", ";">>
      [] chr = ">" -> <<"&", "g", "t", ";">>
      [] chr = "&" -> <<"&", "a", "m", "p", ";">>
      [] chr = "'" -> <<"&", "a", "p", "o", "s", ";">>
      [] chr = "\"" -> <<"&", "q", "u", "o", "t", ";">>
      [] OTHER -> <<chr>>

RECURSIVE Flatten(_)
\* Array.prototype.join('') of a sequence of strings
Flatten(ss) == IF Len(ss) = 0 THEN <<>> ELSE ss[1] \o Flatten(Tail(ss))

\* lines 15-25
EscapeXml(str) == Flatten([i \in 1..Len(str) |-> EscapeChar(str[i])])

Pad(n, width) == LET d == ToDecimal(n) IN Repeat("0", width - Len(d)) \o d

\* Date.prototype.toISOString for the instants of the first minute of the epoch
ToISOString(ms) ==
    <<"1", "9", "7", "0", "-", "0", "1", "-", "0", "1", "T", "0", "0", ":", "0", "0", ":">> \o Pad(ms \div 1000, 2) \o <<".">> \o Pad(ms % 1000, 3) \o <<"Z">>

RECURSIVE EncodeXmlRpcParam(_)
\* lines 27-67; the numbers of the model are integers, so the <double> branch
\* is not drawn; the default branch is drawn for undefined only, and
\* btoa(undefined) is btoa("undefined")
EncodeXmlRpcParam(param) ==
    CASE param.t = "string" -> <<"<", "s", "t", "r", "i", "n", "g", ">">> \o EscapeXml(param.s) \o <<"<", "/", "s", "t", "r", "i", "n", "g", ">">>
      [] param.t = "boolean" ->
            <<"<", "b", "o", "o", "l", "e", "a", "n", ">">> \o (IF param.b THEN <<"t", "r", "u", "e">> ELSE <<"f", "a", "l", "s", "e">>) \o <<"<", "b", "o", "o", "l", "e", "a", "n", ">">>
      [] param.t = "number" -> <<"<", "i", "n", "t", ">">> \o ToDecimal(param.n) \o <<"<", "/", "i", "n", "t", ">">>
      [] param.t = "date" ->
            <<"<", "d", "a", "t", "e", "T", "i", "m", "e", ".", "i", "s", "o", "8", "6", "0", "1", ">">> \o ToISOString(param.ms) \o <<"<", "/", "d", "a", "t", "e", "T", "i", "m", "e", ".", "i", "s", "o", "8", "6", "0", "1", ">">>
      [] param.t = "array" ->
            <<"<", "a", "r", "r", "a", "y", ">">> \o <<"<", "d", "a", "t", "a", ">">>
               \o Flatten([i \in 1..Len(param.a) |->
                     <<"<", "v", "a", "l", "u", "e", ">">> \o EncodeXmlRpcParam(param.a[i]) \o <<"<", "/", "v", "a", "l", "u", "e", ">">>])
               \o <<"<", "/", "d", "a", "t", "a", ">">> \o <<"<", "/", "a", "r", "r", "a", "y", ">">>
      [] param.t = "object" ->
            <<"<", "s", "t", "r", "u", "c", "t", ">">>
               \o Flatten([i \in 1..Len(param.o) |->
                     <<"<", "m", "e", "m", "b", "e", "r", ">">>
                        \o <<"<", "n", "a", "m", "e", ">">> \o EscapeXml(param.o[i].k) \o <<"<", "/", "n", "a", "m", "e", ">">>
                        \o <<"<", "v", "a", "l", "u", "e", ">">> \o EncodeXmlRpcParam(param.o[i].v) \o <<"<", "/", "v", "a", "l", "u", "e", ">">>
                        \o <<"<", "/", "m", "e", "m", "b", "e", "r", ">">>])
               \o <<"<", "/", "s", "t", "r", "u", "c", "t", ">">>
      [] OTHER -> <<"<", "b", "a", "s", "e", "6", "4", ">">> \o <<"d", "W", "5", "k", "Z", "W", "Z", "p", "b", "m", "V", "k">> \o <<"<", "/", "b", "a", "s", "e", "6", "4", ">">>

\* lines 69-83
EncodeXmlRpc(method, params) ==
    <<"<", "?", "x", "m", "l", " ", "v", "e", "r", "s", "i", "o", "n", "=", "\"", "1", ".", "0", "\"", "?", ">">>
        \o <<"<", "m", "e", "t", "h", "o", "d", "C", "a", "l", "l", ">">>
        \o <<"<", "m", "e", "t", "h", "o", "d", "N", "a", "m", "e", ">">> \o method \o <<"<", "/", "m", "e", "t", "h", "o", "d", "N", "a", "m", "e", ">">>
        \o <<"<", "p", "a", "r", "a", "m", "s", ">">>
        \o Flatten([i \in 1..Len(params) |->
              <<"<", "p", "a", "r", "a", "m", ">">> \o <<"<", "v", "a", "l", "u", "e", ">">> \o EncodeXmlRpcParam(params[i]) \o <<"<", "/", "v", "a", "l", "u", "e", ">">>
                 \o <<"<", "/", "p", "a", "r", "a", "m", ">">>])
        \o <<"<", "/", "p", "a", "r", "a", "m", "s", ">">>
        \o <<"<", "/", "m", "e", "t", "h", "o", "d", "C", "a", "l", "l", ">">>

\* ---- DOMParser.parseFromString(text, 'text/xml') ----
\* Elements without attributes, character data and the five predefined
\* entities; anything else is not well-formed here.  An element is
\* [tagName, textContent, children].
Element(tagName, textContent, children) ==
    [tagName |-> tagName, textContent |-> textContent, children |-> children]

NameChars == Range(LowerLetters) \cup Range(UpperLetters) \cup Range(Digits) \cup {".", "-", "_"}
NameStartChars == Range(LowerLetters) \cup Range(UpperLetters) \cup {"_"}

ParseFail == [ok |-> FALSE]

\* a predefined entity reference at i
EntityAt(s, i) ==
    CASE HasPrefixAt(s, i, <<"&", "l", "t", ";">>) -> [ok |-> TRUE, chr |-> "<", pos |-> i + 4]
      [] HasPrefixAt(s, i, <<"&", "g", "t", ";">>) -> [ok |-> TRUE, chr |-> ">", pos |-> i + 4]
      [] HasPrefixAt(s, i, <<"&", "a", "m", "p", ";">>) -> [ok |-> TRUE, chr |-> "&", pos |-> i + 5]
      [] HasPrefixAt(s, i, <<"&", "a", "p", "o", "s", ";">>) -> [ok |-> TRUE, chr |-> "'", pos |-> i + 6]
      [] HasPrefixAt(s, i, <<"&", "q", "u", "o", "t", ";">>) -> [ok |-> TRUE, chr |-> "\"", pos |-> i + 6]
      [] OTHER -> ParseFail

RECURSIVE NormalizeEol(_)
\* end-of-line handling of XML: CR LF and a lone CR are read as LF
NormalizeEol(s) ==
    IF s = <<>> THEN <<>>
    ELSE IF s[1] = CR
         THEN <<LF>> \o NormalizeEol(IF Len(s) > 1 /\ s[2] = LF THEN SubSeq(s, 3, Len(s))
                                                              ELSE Tail(s))
         ELSE <<s[1]>> \o NormalizeEol(Tail(s))

RECURSIVE ParseElement(_, _), ParseContent(_, _, _, _)

\* the content of an element from i up to the "</" that ends it
ParseContent(s, i, text, kids) ==
    IF i > Len(s) THEN ParseFail
    ELSE IF s[i] = "<"
    THEN IF HasPrefixAt(s, i, <<"<", "/">>)
         THEN [ok |-> TRUE, pos |-> i, text |-> text, kids |-> kids]
         ELSE LET e == ParseElement(s, i)
              IN IF ~e.ok THEN ParseFail
                 ELSE ParseContent(s, e.pos, text \o e.node.textContent, Append(kids, e.node))
    ELSE IF s[i] = "&"
    THEN LET r == EntityAt(s, i)
         IN IF ~r.ok THEN ParseFail ELSE ParseContent(s, r.pos, Append(text, r.chr), kids)
    ELSE LET j == FirstIn(s, i, {"<", "&"})
         IN ParseContent(s, j, text \o NormalizeEol(SubSeq(s, i, j - 1)), kids)

\* the element that starts at i
ParseElement(s, i) ==
    IF ~(i <= Len(s) /\ s[i] = "<") THEN ParseFail
    ELSE
    LET n == FirstNotIn(s, i + 1, NameChars)
        name == SubSeq(s, i + 1, n - 1)
        j == SkipSpaces(s, n)
    IN  IF name = <<>> THEN ParseFail
        ELSE IF name[1] \notin NameStartChars THEN ParseFail
        ELSE IF HasPrefixAt(s, j, <<"/", ">">>)
        THEN [ok |-> TRUE, pos |-> j + 2, node |-> Element(name, <<>>, <<>>)]
        ELSE IF j <= Len(s) /\ s[j] = ">"
        THEN LET c == ParseContent(s, j + 1, <<>>, <<>>)
             IN IF ~c.ok THEN ParseFail
                ELSE LET m == c.pos + 2 + Len(name)
                         k == SkipSpaces(s, m)
                     IN IF /\ HasPrefixAt(s, c.pos, <<"<", "/">> \o name)
                           /\ (m > Len(s) \/ s[m] \notin NameChars)
                           /\ k <= Len(s) /\ s[k] = ">"
                        THEN [ok |-> TRUE, pos |-> k + 1,
                              node |-> Element(name, c.text, c.kids)]
                        ELSE ParseFail
        ELSE ParseFail

\* the document of a text that is not well-formed: one parsererror element
ParserError == Element(<<"p", "a", "r", "s", "e", "r", "e", "r", "r", "o", "r">>, <<"XML Parsing Error">>, <<>>)

\* parseFromString(text, 'text/xml').documentElement (lines 8, 136)
ParseFromString(text) ==
    LET p == IF HasPrefixAt(text, 1, <<"<", "?", "x", "m", "l", " ">>)
             THEN LET q == {j \in 1..Len(text) : HasPrefixAt(text, j, <<"?", ">">>)}
                  IN IF q = {} THEN Len(text) + 1 ELSE Least(q) + 2
             ELSE 1
        e == ParseElement(text, SkipSpaces(text, p))
    IN IF e.ok /\ SkipSpaces(text, e.pos) > Len(text) THEN e.node ELSE ParserError

\* ---- DOM accessors ----
FirstElementChild(node) == IF node.children = <<>> THEN Null ELSE node.children[1]

RECURSIVE QueryAll(_, _)
\* the descendants of node with the tag, in document order
QueryAll(node, tag) ==
    Flatten([i \in 1..Len(node.children) |->
        (IF node.children[i].tagName = tag THEN <<node.children[i]>> ELSE <<>>)
            \o QueryAll(node.children[i], tag)])
QuerySelector(node, tag) ==
    LET all == QueryAll(node, tag) IN IF all = <<>> THEN Null ELSE all[1]

\* ---- JavaScript helpers ----
TrimSpaces(s) ==
    LET a == SkipSpaces(s, 1)
        ends == {j \in 1..Len(s) : s[j] \notin SpaceChars}
    IN IF a > Len(s) THEN <<>> ELSE SubSeq(s, a, CHOOSE j \in ends : \A k \in ends : k <= j)

\* Number(text) on decimal integer text; other text is NaN (the model draws no
\* fractions, exponents, hexadecimal or Infinity)
JsNumber(text) ==
    LET s == TrimSpaces(text)
    IN IF s = <<>> THEN Num(0)
       ELSE IF IsDigitRun(s) THEN Num(DigitsValue(s))
       ELSE IF s[1] = "-" /\ IsDigitRun(Tail(s)) THEN Num(-DigitsValue(Tail(s)))
       ELSE IF s[1] = "+" /\ IsDigitRun(Tail(s)) THEN Num(DigitsValue(Tail(s)))
       ELSE NaN

HasProp(props, key) == \E i \in 1..Len(props) : props[i].k = key
\* object[key] on a sequence of own properties
GetProp(props, key) ==
    IF HasProp(props, key)
    THEN props[CHOOSE i \in 1..Len(props) : props[i].k = key].v
    ELSE Undefined
\* an assignment that leaves an existing key alone
SetPropFirstWins(props, key, value) ==
    IF HasProp(props, key) THEN props ELSE Append(props, Prop(key, value))
\* object[key] = value: an existing key keeps its place and takes the value
SetProp(props, key, value) ==
    IF HasProp(props, key)
    THEN [i \in 1..Len(props) |-> IF props[i].k = key THEN Prop(key, value) ELSE props[i]]
    ELSE Append(props, Prop(key, value))

\* the own enumerable properties Object.assign copies from a source
OwnProps(source) ==
    CASE source.t = "object" -> source.o
      [] source.t = "array" -> [i \in 1..Len(source.a) |-> Prop(ToDecimal(i - 1), source.a[i])]
      [] source.t = "string" ->
            [i \in 1..Len(source.s) |-> Prop(ToDecimal(i - 1), Str(<<source.s[i]>>))]
      [] OTHER -> <<>>

RECURSIVE AssignProps(_, _)
AssignProps(props, more) ==
    IF Len(more) = 0 THEN props
    ELSE AssignProps(SetProp(props, more[1].k, more[1].v), Tail(more))
\* Object.assign(target, source)
ObjectAssign(props, source) == AssignProps(props, OwnProps(source))

RECURSIVE AssignAll(_, _)
AssignAll(props, sources) ==
    IF Len(sources) = 0 THEN props
    ELSE AssignAll(ObjectAssign(props, sources[1]), Tail(sources))

Throws(vals) == \E i \in 1..Len(vals) : vals[i].t = "TypeError"

\* atob on the base64 texts the model draws
Atob(text) ==
    CASE text = <<>> -> Str(<<>>)
      [] text = <<"d", "W", "5", "k", "Z", "W", "Z", "p", "b", "m", "V", "k">> -> Str(<<"u", "n", "d", "e", "f", "i", "n", "e", "d">>)
      [] text = <<"Y", "Q", "=", "=">> -> Str(<<"a">>)

WrapperTags == { <<"m", "e", "t", "h", "o", "d", "R", "e", "s", "p", "o", "n", "s", "e">>, <<"p", "a", "r", "a", "m", "s">>, <<"p", "a", "r", "a", "m">>, <<"v", "a", "l", "u", "e">>, <<"f", "a", "u", "l", "t">>, <<"a", "r", "r", "a", "y">> }
NumberTags == { <<"i", "n", "t">>, <<"i", "4">>, <<"i", "8">>, <<"d", "o", "u", "b", "l", "e">> }

RECURSIVE DecodeXmlRpc(_)
\* lines 85-123; a TypeError thrown inside (a property read on null) is the
\* value TypeErr and leaves every enclosing call
DecodeXmlRpc(node) ==
    IF node = Null THEN TypeErr
    ELSE
    CASE node.tagName = <<"s", "t", "r", "i", "n", "g">> -> Str(node.textContent)
      [] node.tagName = <<"b", "o", "o", "l", "e", "a", "n">> -> Bool(node.textContent = <<"t", "r", "u", "e">>)
      [] node.tagName \in NumberTags -> JsNumber(node.textContent)
      [] node.tagName \in WrapperTags -> DecodeXmlRpc(FirstElementChild(node))
      [] node.tagName = <<"d", "a", "t", "a">> ->
            LET array == [i \in 1..Len(node.children) |-> DecodeXmlRpc(node.children[i])]
            IN IF Throws(array) THEN TypeErr ELSE Arr(array)
      [] node.tagName = <<"s", "t", "r", "u", "c", "t">> ->
            LET parts == [i \in 1..Len(node.children) |-> DecodeXmlRpc(node.children[i])]
            IN IF Throws(parts) THEN TypeErr ELSE Obj(AssignAll(<<>>, parts))
      [] node.tagName = <<"m", "e", "m", "b", "e", "r">> ->
            LET name == QuerySelector(node, <<"n", "a", "m", "e">>)
                value == DecodeXmlRpc(QuerySelector(node, <<"v", "a", "l", "u", "e">>))
            IN IF name = Null \/ value = TypeErr THEN TypeErr
               ELSE Obj(<<Prop(name.textContent, value)>>)
      [] node.tagName = <<"b", "a", "s", "e", "6", "4">> -> Atob(node.textContent)
      [] OTHER -> Undefined     \* xml.textContext: no such property

SeparatorChars == {".", ",", "_", "="} \cup SpaceChars

RECURSIVE CamelReplaceKeepCase(_)
\* a replacement that keeps the case of the character after the separators
CamelReplaceKeepCase(s) ==
    IF s = <<>> THEN <<>>
    ELSE IF s[1] \in SeparatorChars
    THEN LET j == FirstNotIn(s, 1, SeparatorChars)
         IN IF j > Len(s) THEN <<>>
            ELSE <<s[j]>> \o CamelReplaceKeepCase(SubSeq(s, j + 1, Len(s)))
    ELSE <<s[1]>> \o CamelReplaceKeepCase(Tail(s))

RECURSIVE CamelReplace(_)
\* s.replace(/[.,_=\s]+(.)?/g, (_, chr) => chr ? chr.toUpperCase() : '')
CamelReplace(s) ==
    IF s = <<>> THEN <<>>
    ELSE IF s[1] \in SeparatorChars
    THEN LET j == FirstNotIn(s, 1, SeparatorChars)
         IN IF j > Len(s) THEN <<>>
            ELSE <<ToUpperChar(s[j])>> \o CamelReplace(SubSeq(s, j + 1, Len(s)))
    ELSE <<s[1]>> \o CamelReplace(Tail(s))

\* a camel-casing that never capitalizes
ToCamelCaseKeepCase(str) == CamelReplaceKeepCase(ToLowerCase(str))
\* lines 125-127
ToCamelCase(str) == CamelReplace(ToLowerCase(str))

(***************************************************************************)
(* The facade: rtorrentCall, rtorrentMulticall and rtorrentBatchcall.      *)
(***************************************************************************)

\* String(v) as parseFromString applies it to its first argument
JsToString(v) == IF v.t = "string" THEN v.s ELSE <<"u", "n", "d", "e", "f", "i", "n", "e", "d">>

RECURSIVE Split(_, _)
\* String.prototype.split with a one-character separator
Split(s, sep) ==
    LET i == FirstIn(s, 1, {sep})
    IN IF i > Len(s) THEN <<s>>
       ELSE <<SubSeq(s, 1, i - 1)>> \o Split(SubSeq(s, i + 1, Len(s)), sep)

\* cmd.includes('=')
Includes(s, c) == c \in Range(s)

\* value[i] for a zero-based index i; a read on undefined throws
Index(value, i) ==
    CASE value.t = "array" -> IF i < Len(value.a) THEN value.a[i + 1] ELSE Undefined
      [] value.t = "string" -> IF i < Len(value.s) THEN Str(<<value.s[i + 1]>>) ELSE Undefined
      [] value.t = "object" -> GetProp(value.o, ToDecimal(i))
      [] value.t \in {"undefined", "TypeError"} -> TypeErr
      [] OTHER -> Undefined

\* value.length; a read on undefined throws
Length(value) ==
    CASE value.t = "array" -> Num(Len(value.a))
      [] value.t = "string" -> Num(Len(value.s))
      [] value.t = "object" -> GetProp(value.o, <<"l", "e", "n", "g", "t", "h">>)
      [] value.t \in {"undefined", "TypeError"} -> TypeErr
      [] OTHER -> Undefined

\* a sequence of no elements
ErrorSentinelEmpty == Arr(<<>>)
\* line 134: the value returned when the transport result carries an error
ErrorSentinel == Arr(<<Arr(<<>>)>>)

\* lines 132-137: what rtorrentCall returns for a transport result
CallResult(response) ==
    IF HasProp(response.o, <<"e", "r", "r", "o", "r">>)
    THEN ErrorSentinel
    ELSE DecodeXmlRpc(ParseFromString(JsToString(GetProp(response.o, <<"x", "m", "l">>))))

\* line 140
MulticallMethod(methodType) ==
    IF methodType = <<"d", ".">> THEN <<"d", ".", "m", "u", "l", "t", "i", "c", "a", "l", "l", "2">> ELSE methodType \o <<"m", "u", "l", "t", "i", "c", "a", "l", "l">>

\* line 141
CompleteCommands(methodType, commands) ==
    [i \in 1..Len(commands) |->
        methodType \o commands[i] \o (IF Includes(commands[i], "=") THEN <<>> ELSE <<"=">>)]

RECURSIVE RowObject(_, _, _, _)
\* line 145: commands.forEach((key, i) => object[toCamelCase(key)] = result[i])
RowObject(object, commands, row, i) ==
    IF i > Len(commands) THEN Obj(object)
    ELSE LET value == Index(row, i - 1)
         IN IF value = TypeErr THEN TypeErr
            ELSE RowObject(SetProp(object, ToCamelCase(commands[i]), value), commands, row, i + 1)

\* lines 143-147: results.map(...)
MulticallResult(commands, results) ==
    IF results.t # "array" THEN TypeErr
    ELSE LET rows == [k \in 1..Len(results.a) |-> RowObject(<<>>, commands, results.a[k], 1)]
         IN IF Throws(rows) THEN TypeErr ELSE Arr(rows)

\* lines 150-157: the methods array of a batch call
BatchMethods(methodType, hash, commands) ==
    [i \in 1..Len(commands) |->
        LET cmd == commands[i]
            parts == Split(cmd, "=")
            extra == IF Includes(cmd, "=") THEN Split(parts[2], ",") ELSE <<>>
            params == <<Str(hash)>> \o [j \in 1..Len(extra) |-> Str(extra[j])]
        IN Obj(<<Prop(<<"m", "e", "t", "h", "o", "d", "N", "a", "m", "e">>, Str(methodType \o parts[1])),
                 Prop(<<"p", "a", "r", "a", "m", "s">>, Arr(params))>>)]

\* a result entry kept as it is
UnwrapNever(res) == res
\* line 161: (result.length === 1) ? result[0] : result
Unwrap(res) ==
    LET length == Length(res)
    IN IF length = TypeErr THEN TypeErr
       ELSE IF length = Num(1) THEN Index(res, 0) ELSE res

RECURSIVE BatchObject(_, _, _, _)
\* lines 160-161: results.forEach((result, i) => object[toCamelCase(commands[i])] = ...)
BatchObject(object, commands, results, i) ==
    IF i > Len(results) THEN Obj(object)
    ELSE IF i > Len(commands) THEN TypeErr      \* toCamelCase(undefined)
    ELSE LET value == Unwrap(results[i])
         IN IF value = TypeErr THEN TypeErr
            ELSE BatchObject(SetProp(object, ToCamelCase(commands[i]), value),
                             commands, results, i + 1)

\* lines 159-162
BatchcallResult(commands, results) ==
    IF results.t # "array" THEN TypeErr ELSE BatchObject(<<>>, commands, results.a, 1)

\* ---- the inputs of the facade ----
RECURSIVE SeqsUpTo(_, _)
\* the sequences over S of length at most n
SeqsUpTo(S, n) ==
    IF n = 0 THEN {<<>>}
    ELSE LET shorter == SeqsUpTo(S, n - 1)
         IN shorter \cup {Append(s, x) : s \in shorter, x \in S}

CommandPool == { <<"n", "a", "m", "e">>, <<"s", "i", "z", "e", "_", "b", "y", "t", "e", "s">>, <<"s", "i", "z", "e", ".", "b", "y", "t", "e", "s">>, <<"c", "u", "s", "t", "o", "m", "=", "a", ",", "b">> }
CommandLists == SeqsUpTo(CommandPool, MaxCommands)
MethodTypes == { <<"d", ".">>, <<"t", ".">> }
Hashes == { <<>>, <<"A", "B", "1", "2">> }
Filters == { <<"d", "e", "f", "a", "u", "l", "t">> }
CallMethods == { <<"s", "y", "s", "t", "e", "m", ".", "l", "i", "s", "t", "M", "e", "t", "h", "o", "d", "s">>, <<"d", ".", "n", "a", "m", "e">> }
CallParams == { <<>>, <<Str(<<"A", "B", "1", "2">>)>>, <<Str(<<"a", "<", "b">>), Num(3)>> }

\* ---- the daemon's documents, as the transport hands them over ----
El(tag, content) == <<"<">> \o tag \o <<">">> \o content \o <<"<", "/">> \o tag \o <<">">>

RECURSIVE DaemonXml(_)
\* the daemon's serialization of a result value
DaemonXml(v) ==
    CASE v.t = "string" -> El(<<"s", "t", "r", "i", "n", "g">>, EscapeXml(v.s))
      [] v.t = "number" -> El(<<"i", "8">>, ToDecimal(v.n))
      [] v.t = "array" ->
            El(<<"a", "r", "r", "a", "y">>, El(<<"d", "a", "t", "a">>,
                Flatten([i \in 1..Len(v.a) |-> El(<<"v", "a", "l", "u", "e">>, DaemonXml(v.a[i]))])))
      [] v.t = "object" ->
            El(<<"s", "t", "r", "u", "c", "t">>,
                Flatten([i \in 1..Len(v.o) |->
                    El(<<"m", "e", "m", "b", "e", "r">>, El(<<"n", "a", "m", "e">>, v.o[i].k) \o El(<<"v", "a", "l", "u", "e">>, DaemonXml(v.o[i].v)))]))
      [] v.t = "undefined" -> <<"<", "n", "i", "l", "/", ">">>

MethodResponse(v) ==
    <<"<", "?", "x", "m", "l", " ", "v", "e", "r", "s", "i", "o", "n", "=", "\"", "1", ".", "0", "\"", " ", "e", "n", "c", "o", "d", "i", "n", "g", "=", "\"", "U", "T", "F", "-", "8", "\"", "?", ">", "\n">>
        \o El(<<"m", "e", "t", "h", "o", "d", "R", "e", "s", "p", "o", "n", "s", "e">>, El(<<"p", "a", "r", "a", "m", "s">>, El(<<"p", "a", "r", "a", "m">>, El(<<"v", "a", "l", "u", "e">>, DaemonXml(v)))))

Fault ==
    Obj(<<Prop(<<"f", "a", "u", "l", "t", "C", "o", "d", "e">>, Num(-506)), Prop(<<"f", "a", "u", "l", "t", "S", "t", "r", "i", "n", "g">>, Str(<<"M", "e", "t", "h", "o", "d", " ", "n", "o", "t", " ", "d", "e", "f", "i", "n", "e", "d">>))>>)

ReplyValues ==
    { Arr(<<>>),
      Arr(<<Arr(<<>>)>>),
      Arr(<<Arr(<<Str(<<"f", "o", "o", ".", "t", "o", "r", "r", "e", "n", "t">>), Num(1024)>>)>>),
      Arr(<<Arr(<<Str(<<"a">>)>>), Arr(<<Str(<<"b">>)>>)>>),
      Arr(<<Arr(<<Str(<<"a">>), Str(<<"b">>)>>), Arr(<<Num(7)>>), Arr(<<Num(8)>>)>>),
      Arr(<<Arr(<<Arr(<<Str(<<"x">>)>>)>>), Fault>>),
      Arr(<<Str(<<"d", ".", "m", "u", "l", "t", "i", "c", "a", "l", "l", "2">>)>>),
      Arr(<<Num(7), Str(<<"q">>)>>),
      Arr(<<Undefined>>),
      Num(0),
      Undefined }

ResponseDocs ==
    { MethodResponse(v) : v \in ReplyValues }
    \cup { El(<<"m", "e", "t", "h", "o", "d", "R", "e", "s", "p", "o", "n", "s", "e">>, El(<<"f", "a", "u", "l", "t">>, El(<<"v", "a", "l", "u", "e">>, DaemonXml(Fault)))),
           <<"<", "m", "e", "t", "h", "o", "d", "R", "e", "s", "p", "o", "n", "s", "e", "/", ">">>,
           <<"<", "m", "e", "t", "h", "o", "d", "R", "e", "s", "p", "o", "n", "s", "e", ">", "<", "p", "a", "r", "a", "m", "s", ">">> }

\* what rtorrentRpc(...) may resolve to: the relay's {error: ...}, {xml: ...} or {}
TransportResponses ==
    { Obj(<<Prop(<<"e", "r", "r", "o", "r">>, Str(<<"No scgi port">>))>>),
      Obj(<<Prop(<<"e", "r", "r", "o", "r">>, Str(<<"c", "l", "o", "s", "e", "d">>))>>),
      Obj(<<>>) }
    \cup { Obj(<<Prop(<<"x", "m", "l">>, Str(doc))>>) : doc \in ResponseDocs }

NoArgs ==
    [method |-> <<>>, params |-> <<>>, methodType |-> <<>>, hash |-> <<>>, filter |-> <<>>,
     commands |-> <<>>]

\* lines 130-131: rtorrentCall up to its await
IssueCall(method, params) ==
    /\ fmethod' = method
    /\ fparams' = params
    /\ frequest' = EncodeXmlRpc(method, params)
    /\ fcalls' = fcalls + 1
    /\ fpc' = "await"
    /\ UNCHANGED <<fresponse, fresults, fout>>
    /\ UNCHANGED <<relayVars, codecVars>>

Idle == pc = "idle" /\ cpc = "idle" /\ fpc = "idle"

RtorrentCall(method, params) ==
    /\ Idle
    /\ fop' = "call"
    /\ fargs' = [NoArgs EXCEPT !.method = method, !.params = params]
    /\ IssueCall(method, params)

\* lines 139-142
RtorrentMulticall(methodType, hash, filter, commands) ==
    /\ Idle
    /\ fop' = "multicall"
    /\ fargs' = [NoArgs EXCEPT !.methodType = methodType, !.hash = hash,
                               !.filter = filter, !.commands = commands]
    /\ LET completeCommands == CompleteCommands(methodType, commands)
       IN IssueCall(MulticallMethod(methodType),
                    <<Str(hash), Str(filter)>>
                        \o [i \in 1..Len(commands) |-> Str(completeCommands[i])])

\* lines 149-158
RtorrentBatchcall(methodType, hash, commands) ==
    /\ Idle
    /\ fop' = "batchcall"
    /\ fargs' = [NoArgs EXCEPT !.methodType = methodType, !.hash = hash,
                               !.commands = commands]
    /\ IssueCall(<<"s", "y", "s", "t", "e", "m", ".", "m", "u", "l", "t", "i", "c", "a", "l", "l">>, <<Arr(BatchMethods(methodType, hash, commands))>>)

\* lines 132-137, then the rest of the operation that awaited rtorrentCall
TransportReply(response) ==
    /\ fpc = "await"
    /\ fresponse' = response
    /\ LET results == CallResult(response)
       IN /\ fresults' = results
          /\ fout' = CASE fop = "call" -> results
                       [] fop = "multicall" -> MulticallResult(fargs.commands, results)
                       [] fop = "batchcall" -> BatchcallResult(fargs.commands, results)
    /\ fpc' = "done"
    /\ UNCHANGED <<fop, fargs, fmethod, fparams, frequest, fcalls>>
    /\ UNCHANGED <<relayVars, codecVars>>

NextFacade ==
    \/ \E method \in CallMethods, params \in CallParams : RtorrentCall(method, params)
    \/ \E methodType \in MethodTypes, hash \in Hashes, filter \in Filters,
          commands \in CommandLists : RtorrentMulticall(methodType, hash, filter, commands)
    \/ \E methodType \in MethodTypes, hash \in Hashes, commands \in CommandLists :
          RtorrentBatchcall(methodType, hash, commands)
    \/ \E response \in TransportResponses : TransportReply(response)

(***************************************************************************)
(* One application of the codec's pure functions.                          *)
(***************************************************************************)
Scalars ==
    { Str(<<>>), Str(<<"a">>), Str(<<"<", "a", "&", "b", ">", "'", "\"">>), Str(<<"x", "\r", "y">>),
      Bool(TRUE), Bool(FALSE),
      Num(0), Num(42), Num(-7),
      DateV(0), DateV(59999) }

RECURSIVE RpcValues(_)
\* the RpcValues without a Binary variant, nested to depth d
RpcValues(d) ==
    IF d = 0 THEN Scalars
    ELSE LET inner == RpcValues(d - 1)
         IN Scalars
            \cup {Arr(<<>>), Obj(<<>>)}
            \cup {Arr(<<x>>) : x \in inner}
            \cup {Arr(<<x, Num(42)>>) : x \in inner}
            \cup {Obj(<<Prop(<<"k">>, x)>>) : x \in inner}
            \cup {Obj(<<Prop(<<"a", "&", "b">>, x), Prop(<<"k">>, Str(<<"<">>)) >>) : x \in inner}

\* documents handed to the parser and then to decodeXmlRpc
DecodeDocs ==
    ResponseDocs
    \cup { El(<<"n", "i", "l">>, <<>>),
           El(<<"v", "a", "l", "u", "e">>, El(<<"e", "x", ".", "i", "8">>, <<"1">>)),
           El(<<"d", "a", "t", "e", "T", "i", "m", "e", ".", "i", "s", "o", "8", "6", "0", "1">>, <<"1", "9", "7", "0", "0", "1", "0", "1", "T", "0", "0", ":", "0", "0", ":", "0", "0">>),
           El(<<"s", "t", "r", "u", "c", "t">>, El(<<"m", "e", "m", "b", "e", "r">>, El(<<"n", "a", "m", "e">>, <<"k">>) \o El(<<"v", "a", "l", "u", "e">>, <<"<", "n", "i", "l", "/", ">">>))),
           El(<<"s", "t", "r", "u", "c", "t">>, El(<<"s", "t", "r", "i", "n", "g">>, <<"a", "b">>) \o <<"<", "n", "i", "l", "/", ">">>),
           El(<<"s", "t", "r", "u", "c", "t">>, El(<<"m", "e", "m", "b", "e", "r">>, El(<<"v", "a", "l", "u", "e">>, El(<<"i", "4">>, <<"1">>)))),
           El(<<"m", "e", "m", "b", "e", "r">>, El(<<"n", "a", "m", "e">>, <<"k">>)),
           El(<<"b", "o", "o", "l", "e", "a", "n">>, <<"1">>),
           El(<<"b", "o", "o", "l", "e", "a", "n">>, <<"t", "r", "u", "e">>),
           El(<<"d", "o", "u", "b", "l", "e">>, <<" ", "5", " ">>),
           El(<<"i", "n", "t">>, <<"a", "b", "c">>),
           El(<<"i", "4">>, <<"-", "1", "2">>),
           El(<<"s", "t", "r", "i", "n", "g">>, <<"a", "\r", "\n", "b", " ", "&", "a", "m", "p", ";", " ", "c">>),
           El(<<"b", "a", "s", "e", "6", "4">>, <<"Y", "Q", "=", "=">>),
           <<"<", "v", "a", "l", "u", "e", ">", "<", "s", "t", "r", "i", "n", "g", ">", "a", "<", "/", "v", "a", "l", "u", "e", ">">> }

CamelInputs ==
    CommandPool
    \cup { <<"d", ".", "c", "o", "m", "p", "l", "e", "t", "e", "=">>, <<"d", ".", "n", "a", "m", "e", "=">>, <<"t", ".", "g", "e", "t", "_", "u", "r", "l", "=">>, <<"c", "o", "m", "p", "l", "e", "t", "e", "=">>, <<"g", "e", "t", "_", "u", "r", "l">>, <<>>,
           <<"=">>, <<"a", ".", " ", "b">>, <<"U", "P", "_", "T", "o", "t", "a", "l">>, <<"x", "_", "_", "y", "=">>, <<"_", "a">> }

\* encodeXmlRpcParam(v)
Encode(v) ==
    /\ Idle
    /\ cin' = v
    /\ cxml' = EncodeXmlRpcParam(v)
    /\ cpc' = "encoded"
    /\ UNCHANGED <<cdom, cout>>
    /\ UNCHANGED <<relayVars, facadeVars>>

\* a document arrives as text
Receive_(doc) ==
    /\ Idle
    /\ cin' = Str(doc)
    /\ cxml' = doc
    /\ cpc' = "received"
    /\ UNCHANGED <<cdom, cout>>
    /\ UNCHANGED <<relayVars, facadeVars>>

\* decodeXmlRpc(domParser.parseFromString(text, 'text/xml').documentElement)
Decode ==
    /\ cpc \in {"encoded", "received"}
    /\ LET root == ParseFromString(cxml)
       IN /\ cdom' = root
          /\ cout' = DecodeXmlRpc(root)
    /\ cpc' = IF cpc = "encoded" THEN "roundtrip" ELSE "decoded"
    /\ UNCHANGED <<cin, cxml>>
    /\ UNCHANGED <<relayVars, facadeVars>>

\* toCamelCase(str)
CamelCase(str) ==
    /\ Idle
    /\ cin' = Str(str)
    /\ cout' = Str(ToCamelCase(str))
    /\ cpc' = "camel"
    /\ UNCHANGED <<cxml, cdom>>
    /\ UNCHANGED <<relayVars, facadeVars>>

NextCodec ==
    \/ \E v \in RpcValues(MaxDepth) : Encode(v)
    \/ \E doc \in DecodeDocs : Receive_(doc)
    \/ Decode
    \/ \E str \in CamelInputs : CamelCase(str)

(***************************************************************************)
(* Specifications.  A behaviour follows one invocation: of the relay, of a *)
(* codec function or of a facade operation.                                *)
(***************************************************************************)
Init ==
    /\ pc = "idle" /\ xml = <<>> /\ address = <<>> /\ port = <<>> /\ sock = "none"
    /\ wire = <<>> /\ rpos = 0 /\ sent = <<>> /\ headers = NoHeaders /\ line = Nil
    /\ body = Nil /\ result = NoResult /\ outcome = "none" /\ stages = <<>>
    /\ cpc = "idle" /\ cin = Undefined /\ cxml = <<>> /\ cdom = Null /\ cout = Undefined
    /\ fpc = "idle" /\ fop = "none" /\ fargs = NoArgs /\ fmethod = <<>> /\ fparams = <<>>
    /\ frequest = <<>> /\ fcalls = 0 /\ fresponse = Undefined /\ fresults = Undefined
    /\ fout = Undefined

Next == NextRelay \/ NextCodec \/ NextFacade

Spec == Init /\ [][Next]_vars
SpecRelay == Init /\ [][NextRelay]_vars
SpecCodec == Init /\ [][NextCodec]_vars
SpecFacade == Init /\ [][NextFacade]_vars

(***************************************************************************)
(* The claims.                                                             *)
(***************************************************************************)

IsPrefix(s, t) == Len(s) <= Len(t) /\ s = SubSeq(t, 1, Len(s))
Last(S) == CHOOSE j \in S : \A k \in S : k <= j

\* C1: a relay call ends by returning exactly one of {xml = <text>} and
\* {error = <message>}; it never raises an error past the relay boundary and
\* never returns a table with neither field.
C1_ReturnsXmlOrError ==
    pc = "done" =>
        /\ outcome = "returned"
        /\ \/ result.xml # Nil /\ result.error = Nil
           \/ result.xml = Nil /\ result.error # Nil

\* The bytes of an SCGI request for a body, read back as a receiver reads
\* them: a decimal length, ":", that many bytes of NUL-terminated fields,
\* ",", and the body.
Framed(bytes, payload) ==
    LET colon == FirstIn(bytes, 1, {":"})
        prefix == SubSeq(bytes, 1, colon - 1)
    IN  /\ colon <= Len(bytes)
        /\ IsDigitRun(prefix)
        /\ Len(prefix) = 1 \/ prefix[1] # "0"
        /\ LET n == DigitsValue(prefix)
               block == SubSeq(bytes, colon + 1, colon + n)
               fields == Split(SubSeq(block, 1, n - 1), NUL)
           IN  /\ colon + n + 1 <= Len(bytes)
               /\ bytes[colon + n + 1] = ","
               /\ SubSeq(bytes, colon + n + 2, Len(bytes)) = payload
               /\ block[n] = NUL
               /\ Len(fields) = 8
               /\ fields[1] = <<"C", "O", "N", "T", "E", "N", "T", "_", "L", "E", "N", "G", "T", "H">>
               /\ IsDigitRun(fields[2])
               /\ Len(fields[2]) = 1 \/ fields[2][1] # "0"
               /\ DigitsValue(fields[2]) = Len(payload)
               /\ fields[3] = <<"S", "C", "G", "I">>
               /\ fields[4] = <<"1">>
               /\ fields[5] = <<"R", "E", "Q", "U", "E", "S", "T", "_", "M", "E", "T", "H", "O", "D">>
               /\ fields[6] = <<"P", "O", "S", "T">>
               /\ fields[7] = <<"S", "E", "R", "V", "E", "R", "_", "P", "R", "O", "T", "O", "C", "O", "L">>
               /\ fields[8] = <<"H", "T", "T", "P", "/", "1", ".", "1">>

\* C3: the bytes the relay sends are <decimal length of the header block>:
\* <header block>,<body>; the header block is CONTENT_LENGTH, the decimal
\* length of the body, SCGI, 1, REQUEST_METHOD, POST, SERVER_PROTOCOL,
\* HTTP/1.1, each followed by NUL, in that order; the body follows the ","
\* with no other delimiter.
C3_ScgiFraming == "send" \in Range(stages) => Framed(sent, xml)

\* C3 witness: a request with a body of two-digit length has been sent.
C3_SentLongBody == "send" \in Range(stages) /\ Len(xml) = 10 /\ pc = "done"

\* C4: when the response headers end without a content-length header, a call
\* that returns returns {error = ...}, never {xml = ...}.
C4_MissingLengthIsError ==
    (/\ pc = "done"
     /\ outcome = "returned"
     /\ "body" \in Range(stages)
     /\ <<"c", "o", "n", "t", "e", "n", "t", "-", "l", "e", "n", "g", "t", "h">> \notin DOMAIN headers)
        => result.error # Nil /\ result.xml = Nil

\* the order of the stages the claim C10 states
ClaimedStageOrder == <<"resolve", "connect", "send", "headers", "status", "body">>

\* C10: the stages occur in the order resolve address, connect, send, receive
\* headers, validate status, receive body; a call that ends with "Wrong
\* response code" has read no body; a failed stage ends the call; no
\* connection is opened when the scgi_port line is absent.
C10_StageOrder ==
    /\ IsPrefix(stages, ClaimedStageOrder)
    /\ (pc = "done" /\ result.error # Nil) => "body" \notin Range(stages)
    /\ (pc = "done" /\ result.error = Str(<<"No scgi port">>)) => sock = "none"

\* C2: decoding the XML that encodeXmlRpcParam produced for a value without
\* Binary variant gives the value back.
C2_RoundTrip == cpc = "roundtrip" => cout = cin

RecognizedTags ==
    { <<"s", "t", "r", "i", "n", "g">>, <<"b", "o", "o", "l", "e", "a", "n">>, <<"s", "t", "r", "u", "c", "t">>, <<"m", "e", "m", "b", "e", "r">>, <<"d", "a", "t", "a">>, <<"b", "a", "s", "e", "6", "4">> }
        \cup NumberTags \cup WrapperTags

RECURSIVE MeetsUnrecognized(_)
\* decodeXmlRpc, applied to the node, reaches an element with an unrecognized tag
MeetsUnrecognized(node) ==
    /\ node # Null
    /\ \/ node.tagName \notin RecognizedTags
       \/ node.tagName \in WrapperTags /\ MeetsUnrecognized(FirstElementChild(node))
       \/ /\ node.tagName \in { <<"d", "a", "t", "a">>, <<"s", "t", "r", "u", "c", "t">> }
          /\ \E i \in 1..Len(node.children) : MeetsUnrecognized(node.children[i])
       \/ node.tagName = <<"m", "e", "m", "b", "e", "r">> /\ MeetsUnrecognized(QuerySelector(node, <<"v", "a", "l", "u", "e">>))

\* C5: decodeXmlRpc of a node with an unrecognized tag, also nested in an
\* array, struct or wrapper, fails with an error; it never returns a default
\* or undefined value for it.
C5_UnrecognizedTagFails ==
    (cpc \in {"decoded", "roundtrip"} /\ MeetsUnrecognized(cdom)) => cout = TypeErr

HasError(response) == HasProp(response.o, <<"e", "r", "r", "o", "r">>)
ListMethodsReply == Arr(<<Str(<<"d", ".", "m", "u", "l", "t", "i", "c", "a", "l", "l", "2">>)>>)

\* C6 as stated: rtorrentCall returns a sequence with zero elements when the
\* transport result carries an error field, the decoded root element
\* otherwise; the transport is invoked once.
C6_ErrorGivesEmptySequence ==
    fpc = "done" =>
        /\ fcalls = 1
        /\ HasError(fresponse) => fresults = Arr(<<>>)
        /\ ~HasError(fresponse) =>
              fresults = DecodeXmlRpc(ParseFromString(JsToString(GetProp(fresponse.o, <<"x", "m", "l">>))))

\* C6 as amended: rtorrentCall returns the one-element sequence [[]], whose
\* element is an empty sequence, when the transport result carries an error
\* field, and what decodeXmlRpc gives for the response document's root
\* element otherwise; the transport is invoked once.
C6_ErrorGivesSentinel ==
    fpc = "done" =>
        /\ fcalls = 1
        /\ HasError(fresponse) =>
              fresults.t = "array" /\ Len(fresults.a) = 1 /\ fresults.a[1] = Arr(<<>>)
        /\ ~HasError(fresponse) =>
              fresults = DecodeXmlRpc(ParseFromString(JsToString(GetProp(fresponse.o, <<"x", "m", "l">>))))
        /\ fresponse = Obj(<<Prop(<<"x", "m", "l">>, Str(MethodResponse(ListMethodsReply)))>>) =>
              fresults = ListMethodsReply
        /\ fop = "call" => fout = fresults

\* C6 witness: a call whose transport result carried an error has returned.
C6_CallFailed == fpc = "done" /\ fop = "call" /\ HasError(fresponse)

\* a sequence whose elements are sequences
IsRows(v) == v.t = "array" /\ \A k \in 1..Len(v.a) : v.a[k].t = "array"

\* the greatest index within 1..n of a command with the camel-cased key
LastWithKey(commands, key, n) == Last({j \in 1..n : ToCamelCase(commands[j]) = key})

\* C7: rtorrentMulticall issues one call, of d.multicall2 for "d." and of
\* methodType + "multicall" otherwise, with the parameters hash, filter and
\* each command prefixed by methodType and ending in "=" when it holds none;
\* for a response that is a sequence of rows it returns one object per row
\* in order, in which toCamelCase(commands[j]) maps to r[j], for the last
\* such j when commands share the key.
C7_Multicall ==
    (fpc = "done" /\ fop = "multicall") =>
        LET commands == fargs.commands
            methodType == fargs.methodType
            n == Len(commands)
        IN  /\ fcalls = 1
            /\ fmethod = IF methodType = <<"d", ".">> THEN <<"d", ".", "m", "u", "l", "t", "i", "c", "a", "l", "l", "2">>
                                                ELSE methodType \o <<"m", "u", "l", "t", "i", "c", "a", "l", "l">>
            /\ Len(fparams) = 2 + n
            /\ fparams[1] = Str(fargs.hash)
            /\ fparams[2] = Str(fargs.filter)
            /\ \A j \in 1..n :
                  fparams[2 + j] =
                      Str(methodType \o commands[j]
                             \o (IF "=" \in Range(commands[j]) THEN <<>> ELSE <<"=">>))
            /\ IsRows(fresults) =>
                  /\ fout.t = "array"
                  /\ Len(fout.a) = Len(fresults.a)
                  /\ \A k \in 1..Len(fresults.a) :
                        /\ fout.a[k].t = "object"
                        /\ {fout.a[k].o[i].k : i \in 1..Len(fout.a[k].o)}
                              = {ToCamelCase(commands[j]) : j \in 1..n}
                        /\ \A j \in 1..n :
                              LET key == ToCamelCase(commands[j])
                                  last == LastWithKey(commands, key, n)
                                  r == fresults.a[k].a
                              IN GetProp(fout.a[k].o, key)
                                    = IF last <= Len(r) THEN r[last] ELSE Undefined

\* C7 witness: a multicall whose two commands share a camel-cased key has
\* returned for a response of several rows.
C7_MulticallDone ==
    /\ fpc = "done" /\ fop = "multicall"
    /\ IsRows(fresults) /\ Len(fresults.a) = 3
    /\ fargs.commands = << <<"s", "i", "z", "e", "_", "b", "y", "t", "e", "s">>, <<"s", "i", "z", "e", ".", "b", "y", "t", "e", "s">> >>

\* what the claim C8 lets a key map to for a result entry
Unwrapped(entry) == IF entry.t = "array" /\ Len(entry.a) = 1 THEN entry.a[1] ELSE entry

\* a result sequence of system.multicall: entries that are sequences, scalars
\* or structs without a member named length, at most one per command
IsBatchResults(v, commands) ==
    /\ v.t = "array"
    /\ Len(v.a) <= Len(commands)
    /\ \A i \in 1..Len(v.a) :
          /\ v.a[i].t \in {"array", "string", "number", "boolean", "object"}
          /\ v.a[i].t = "object" => ~HasProp(v.a[i].o, <<"l", "e", "n", "g", "t", "h">>)

\* C8 as stated: rtorrentBatchcall returns one object in which
\* toCamelCase(commands[i]) maps to results[i][0] when results[i] is a
\* sequence of one element and to results[i] otherwise, for every i.
C8_BatchcallEveryIndex ==
    (fpc = "done" /\ fop = "batchcall" /\ IsBatchResults(fresults, fargs.commands)) =>
        /\ fout.t = "object"
        /\ \A i \in 1..Len(fresults.a) :
              GetProp(fout.o, ToCamelCase(fargs.commands[i])) = Unwrapped(fresults.a[i])

\* C8 as amended: the same, for the last i among the commands that share the
\* camel-cased key; the object has no other keys.
C8_BatchcallLastIndex ==
    (fpc = "done" /\ fop = "batchcall" /\ IsBatchResults(fresults, fargs.commands)) =>
        LET commands == fargs.commands
            n == Len(fresults.a)
        IN  /\ fout.t = "object"
            /\ {fout.o[i].k : i \in 1..Len(fout.o)} = {ToCamelCase(commands[i]) : i \in 1..n}
            /\ \A i \in 1..n :
                  LET key == ToCamelCase(commands[i])
                  IN GetProp(fout.o, key) = Unwrapped(fresults.a[LastWithKey(commands, key, n)])

\* C8 witness: a batch call of two commands has returned for two results, one
\* of them a sequence of one element.
C8_BatchcallDone ==
    /\ fpc = "done" /\ fop = "batchcall"
    /\ IsBatchResults(fresults, fargs.commands)
    /\ Len(fresults.a) = 2 /\ Len(fargs.commands) = 2
    /\ fresults.a[1].t = "array" /\ Len(fresults.a[1].a) = 1

\* the characters of s outside the separators, each capitalized when a
\* separator precedes it
CamelSpec(s) ==
    LET kept == {i \in 1..Len(s) : s[i] \notin SeparatorChars}
        Nth(k) == CHOOSE i \in kept : Cardinality({j \in kept : j < i}) = k - 1
    IN [k \in 1..Cardinality(kept) |->
           LET i == Nth(k)
           IN IF i > 1 /\ s[i - 1] \in SeparatorChars THEN ToUpperChar(s[i]) ELSE s[i]]

CamelGeneral ==
    /\ cout.s = CamelSpec(ToLowerCase(cin.s))
    /\ \A i \in 1..Len(cout.s) : cout.s[i] \notin SeparatorChars

\* C9 as stated: toCamelCase strips the separators . , _ = and whitespace and
\* capitalizes the letter after each; "d.complete=" gives "complete",
\* "d.name=" gives "name" and "t.get_url=" gives "getUrl".
C9_CamelDropsNamespace ==
    cpc = "camel" =>
        /\ CamelGeneral
        /\ cin = Str(<<"d", ".", "c", "o", "m", "p", "l", "e", "t", "e", "=">>) => cout = Str(<<"c", "o", "m", "p", "l", "e", "t", "e">>)
        /\ cin = Str(<<"d", ".", "n", "a", "m", "e", "=">>) => cout = Str(<<"n", "a", "m", "e">>)
        /\ cin = Str(<<"t", ".", "g", "e", "t", "_", "u", "r", "l", "=">>) => cout = Str(<<"g", "e", "t", "U", "r", "l">>)

\* C9 as amended: the same, with "d.complete=" giving "dComplete", "d.name="
\* giving "dName" and "t.get_url=" giving "tGetUrl".
C9_CamelKeepsNamespace ==
    cpc = "camel" =>
        /\ CamelGeneral
        /\ cin = Str(<<"d", ".", "c", "o", "m", "p", "l", "e", "t", "e", "=">>) => cout = Str(<<"d", "C", "o", "m", "p", "l", "e", "t", "e">>)
        /\ cin = Str(<<"d", ".", "n", "a", "m", "e", "=">>) => cout = Str(<<"d", "N", "a", "m", "e">>)
        /\ cin = Str(<<"t", ".", "g", "e", "t", "_", "u", "r", "l", "=">>) => cout = Str(<<"t", "G", "e", "t", "U", "r", "l">>)

\* C9 witness: toCamelCase has been applied to "t.get_url=".
C9_CamelApplied == cpc = "camel" /\ cin = Str(<<"t", ".", "g", "e", "t", "_", "u", "r", "l", "=">>)
====
